---- MODULE Spec2Model ----
(***************************************************************************)
(* version-upper: a command-line tool that keeps one version string in a   *)
(* JSON config file and propagates it into tracked files.                  *)
(*                                                                         *)
(* Text is modelled as sequences of one-character strings, so that the     *)
(* regular-expression searches, int()/f-string conversions, substring      *)
(* tests and str.replace of the source are computed character by           *)
(* character.                                                              *)
(***************************************************************************)
EXTENDS Integers, Sequences, FiniteSets, TLC

(***************************************************************************)
(* Bounds of the model.                                                    *)
(***************************************************************************)
\* invocations of the tool in one behaviour
MaxOps == 2
\* iterations of the search-and-splice loop that are followed before the
\* loop is declared divergent
MaxSplice == 3

(***************************************************************************)
(* Characters and numbers.                                                 *)
(***************************************************************************)
DigitChars == <<"0", "1", "2", "3", "4", "5", "6", "7", "8", "9">>

IsDigit(ch) == \E v \in 1..Len(DigitChars) : DigitChars[v] = ch

DigitVal(ch) == (CHOOSE v \in 1..Len(DigitChars) : DigitChars[v] = ch) - 1

IsHex(ch) == IsDigit(ch) \/ ch \in {"a", "b", "c", "d", "e", "f"}

Min(S) == CHOOSE x \in S : \A y \in S : x <= y

\* Python int(text) on a string of decimal digits
RECURSIVE ParseInt(_)
ParseInt(ds) ==
    IF Len(ds) = 0 THEN 0
    ELSE 10 * ParseInt(SubSeq(ds, 1, Len(ds) - 1)) + DigitVal(ds[Len(ds)])

\* Python f"{n}" for a non-negative integer
RECURSIVE FormatInt(_)
FormatInt(n) ==
    IF n < 10 THEN <<DigitChars[n + 1]>>
    ELSE FormatInt(n \div 10) \o <<DigitChars[(n % 10) + 1]>>

\* the character at position i of s is ch
At(s, i, ch) == i >= 1 /\ i <= Len(s) /\ s[i] = ch

\* length of the longest run of digits of s that starts at position i (\d+, greedy)
RECURSIVE DigitRun(_, _)
DigitRun(s, i) ==
    IF i >= 1 /\ i <= Len(s) /\ IsDigit(s[i]) THEN 1 + DigitRun(s, i + 1) ELSE 0

\* length of the longest run of [a-f\d] of s that starts at position i
RECURSIVE HexRun(_, _)
HexRun(s, i) ==
    IF i >= 1 /\ i <= Len(s) /\ IsHex(s[i]) THEN 1 + HexRun(s, i + 1) ELSE 0

\* Python: t in s
Contains(s, t) ==
    \E i \in 1..(Len(s) - Len(t) + 1) : SubSeq(s, i, i + Len(t) - 1) = t

\* Python: s.replace(old, new), old not empty: every non-overlapping
\* occurrence, left to right
RECURSIVE StrReplace(_, _, _)
StrReplace(s, old, new) ==
    IF Len(s) < Len(old) THEN s
    ELSE IF SubSeq(s, 1, Len(old)) = old
         THEN new \o StrReplace(SubSeq(s, Len(old) + 1, Len(s)), old, new)
         ELSE <<s[1]>> \o StrReplace(Tail(s), old, new)

(***************************************************************************)
(* The regular expressions of the source.                                  *)
(***************************************************************************)
\* length of a commit hash: the {40} of CURRENT_VERSION_PATTERN
HashLen == 40

\* the least element of a set of positions, 0 when there is none: re.search
\* reports the leftmost match, or None
First(S) == IF S = {} THEN 0 ELSE Min(S)

Span(s, sp) == SubSeq(s, sp[1], sp[2])

\* \d+\.\d+\.\d+ matched at position i: whether it matches, and the spans
\* of the three numbers.  A \d+ that is followed by a literal takes the
\* whole run of digits (r1, r2, r3): a shorter one would be followed by a
\* digit.
SemAt3(s, i, r1, r2, r3) ==
    [ok |-> /\ r1 >= 1 /\ At(s, i + r1, ".")
            /\ r2 >= 1 /\ At(s, i + r1 + r2 + 1, ".")
            /\ r3 >= 1,
     major |-> <<i, i + r1 - 1>>,
     minor |-> <<i + r1 + 1, i + r1 + r2>>,
     patch |-> <<i + r1 + r2 + 2, i + r1 + r2 + r3 + 1>>]

SemAt2(s, i, r1, r2) == SemAt3(s, i, r1, r2, DigitRun(s, i + r1 + r2 + 2))

SemAt1(s, i, r1) == SemAt2(s, i, r1, DigitRun(s, i + r1 + 1))

SemAt(s, i) == SemAt1(s, i, DigitRun(s, i))

\* re.search: the leftmost position where \d+\.\d+\.\d+ matches, 0 for None
SemSearch(s) == First({i \in 1..Len(s) : SemAt(s, i).ok})

\* major_pattern, minor_pattern, patch_pattern: .search(s).group(1)
major_pattern(s) == Span(s, SemAt(s, SemSearch(s)).major)
minor_pattern(s) == Span(s, SemAt(s, SemSearch(s)).minor)
patch_pattern(s) == Span(s, SemAt(s, SemSearch(s)).patch)

\* \d+\.\d+\.\d+rc(\d+) matched at position i: m is the match of the
\* first part, e its end, k the digits after "rc"
RcAt2(s, i, ok, e, k) ==
    [ok |-> ok /\ At(s, e + 1, "r") /\ At(s, e + 2, "c") /\ k >= 1,
     semantic |-> <<i, e>>,
     rc |-> <<e + 3, e + 2 + k>>]

RcAt1(s, i, m) == RcAt2(s, i, m.ok, m.patch[2], DigitRun(s, m.patch[2] + 3))

RcAt(s, i) == RcAt1(s, i, SemAt(s, i))

\* rc_pattern.search(s): the leftmost match position, 0 for None
rc_pattern(s) == First({i \in 1..Len(s) : RcAt(s, i).ok})

\* (\d+\.\d+\.\d+)rc.* matched at position i
NewVersionAt1(s, i, m) ==
    [ok |-> m.ok /\ At(s, m.patch[2] + 1, "r") /\ At(s, m.patch[2] + 2, "c"),
     semantic |-> <<i, m.patch[2]>>]

NewVersionAt(s, i) == NewVersionAt1(s, i, SemAt(s, i))

\* new_version_pattern.search(s): the leftmost match position, 0 for None
new_version_pattern(s) == First({i \in 1..Len(s) : NewVersionAt(s, i).ok})

(***************************************************************************)
(* Search patterns.  A template is a sequence of literal characters and    *)
(* of the token "{current_version}"; the literal characters used here are  *)
(* no regular-expression metacharacters, so each matches itself.           *)
(***************************************************************************)
Placeholder == "{current_version}"

\* v.count("{current_version}")
PlaceholderCount(v) == Cardinality({i \in 1..Len(v) : v[i] = Placeholder})

\* mutant: a template with several placeholders passes
must_contain_current_pattern_AtLeastOne(v) == PlaceholderCount(v) >= 1

\* SearchPattern.must_contain_current_pattern: the validator's assertion
must_contain_current_pattern(v) == PlaceholderCount(v) = 1

PlaceholderAt(v) == CHOOSE i \in 1..Len(v) : v[i] = Placeholder

\* the literal text of the template before and after the placeholder
TemplatePrefix(v) == SubSeq(v, 1, PlaceholderAt(v) - 1)
TemplateSuffix(v) == SubSeq(v, PlaceholderAt(v) + 1, Len(v))

\* hi, hi - 1, ..., lo
RECURSIVE DownFrom(_, _)
DownFrom(hi, lo) == IF hi < lo THEN <<>> ELSE <<hi>> \o DownFrom(hi - 1, lo)

\* CURRENT_VERSION_PATTERN, (\d+\.\d+\.\d+(rc\d+)?)|[a-f\d]{40}, matched at
\* position j: the end positions the backtracking matcher tries, in its
\* order of preference.  First alternative (m its match, k the digits after
\* an "rc"): the third \d+ from its longest to one digit and, after the
\* longest, the rc\d+ from its longest to one digit and then without it.
\* Second alternative: exactly 40 hex digits.
VersionEnds2(j, m, k, hex) ==
    (IF m.ok
     THEN DownFrom(m.patch[2] + 2 + k, m.patch[2] + 3)
              \o DownFrom(m.patch[2], m.patch[1])
     ELSE <<>>)
    \o (IF hex >= HashLen THEN <<j + HashLen - 1>> ELSE <<>>)

VersionEnds1(s, j, m) ==
    VersionEnds2(j, m,
                 IF At(s, m.patch[2] + 1, "r") /\ At(s, m.patch[2] + 2, "c")
                 THEN DigitRun(s, m.patch[2] + 3) ELSE 0,
                 HexRun(s, j))

CURRENT_VERSION_PATTERN(s, j) == VersionEnds1(s, j, SemAt(s, j))

\* the literal text lit stands at position i of s
LiteralAt(s, i, lit) ==
    /\ i >= 1
    /\ i + Len(lit) - 1 <= Len(s)
    /\ \A x \in 1..Len(lit) : s[i + x - 1] = lit[x]

\* the compiled template (prefix, CURRENT_VERSION_PATTERN, suffix) matched at
\* position i: whether it matches and the span of the named group, which
\* ends at the first of the ends after which the suffix stands
TemplateAt2(j, ends, x) ==
    IF x = 0
    THEN [ok |-> FALSE, current_version |-> <<0, 0>>]
    ELSE [ok |-> TRUE, current_version |-> <<j, ends[x]>>]

TemplateAt1(s, suf, j, ends) ==
    TemplateAt2(j, ends, First({x \in 1..Len(ends) : LiteralAt(s, ends[x] + 1, suf)}))

TemplateAt(s, i, pre, suf) ==
    TemplateAt1(s, suf, i + Len(pre),
                IF LiteralAt(s, i, pre)
                THEN CURRENT_VERSION_PATTERN(s, i + Len(pre)) ELSE <<>>)

\* curr_pattern.search(content): the leftmost match position, 0 for None
curr_pattern(s, pre, suf) ==
    First({i \in 1..Len(s) : TemplateAt(s, i, pre, suf).ok})

\* mutant: the replaced span starts one character late
Splice_OffByOne(content, sp, new_version) ==
    SubSeq(content, 1, sp[1]) \o new_version
        \o SubSeq(content, sp[2] + 1, Len(content))

\* content[0:start] + new_version + content[end:]
Splice(content, sp, new_version) ==
    SubSeq(content, 1, sp[1] - 1) \o new_version
        \o SubSeq(content, sp[2] + 1, Len(content))

\* the while loop of __replace_version_strings: search from the start, stop
\* when nothing matches or the first match already holds new_version,
\* otherwise splice new_version into the group and search again.  A run that
\* is not over after fuel iterations is reported as not halting.
RECURSIVE SpliceLoop(_, _, _, _, _)
SpliceBody(content, pre, suf, new_version, fuel, sp) ==
    IF Span(content, sp) = new_version
    THEN [halts |-> TRUE, content |-> content]
    ELSE IF fuel = 0
         THEN [halts |-> FALSE, content |-> content]
         ELSE SpliceLoop(Splice(content, sp, new_version),
                         pre, suf, new_version, fuel - 1)

SpliceMatch(content, pre, suf, new_version, fuel, i) ==
    IF i = 0
    THEN [halts |-> TRUE, content |-> content]
    ELSE SpliceBody(content, pre, suf, new_version, fuel,
                    TemplateAt(content, i, pre, suf).current_version)

SpliceLoop(content, pre, suf, new_version, fuel) ==
    SpliceMatch(content, pre, suf, new_version, fuel,
                curr_pattern(content, pre, suf))

(***************************************************************************)
(* Values.                                                                 *)
(***************************************************************************)
Dot == <<".">>
RC == <<"r", "c">>

\* the text "a.b.c" of three digit strings
Sem(a, b, c) == a \o Dot \o b \o Dot \o c

\* Python None, as the value of new_semantic_version
None == <<"None">>

\* Python truthiness of new_semantic_version (None and "" are false)
Truthy(v) == v # None /\ v # <<>>

\* the revisions `git log -n1 --format=format:%H` can report
Hash1 == [i \in 1..HashLen |-> "a"]
Hash2 == [i \in 1..HashLen |-> IF i % 2 = 1 THEN "1" ELSE "e"]
Hashes == {Hash1, Hash2}

Procs == {"p1", "p2"}
\* the invocations of the sequential specification: one at a time
Sequential == {"p1"}

Paths == {"f1", "f2"}

\* the directories a files entry can name, and the files below each: the
\* directory d holds the file the model calls f2
Dirs == {"d"}
FilesBelow(dir) == {"f2"}

\* str(pathlib.Path(v)): what a FilePath entry becomes when the config is
\* loaded and written again: "." components are dropped
PurePath(v) == IF v = "./f1" THEN "f1" ELSE v

FilePath(path) == [kind |-> "FilePath", path |-> path, search_pattern |-> <<>>]
\* a string entry that names a directory: FilePath rejects it and
\* DirectoryPath, the next member of the Union, accepts it
DirectoryPath(path) == [kind |-> "DirectoryPath", path |-> path, search_pattern |-> <<>>]
SearchPattern(path, v) == [kind |-> "SearchPattern", path |-> path, search_pattern |-> v]

\* the template "v={current_version}"
TemplateV == <<"v", "=", Placeholder>>

\* the template "version: {current_version}"
TemplateVersion ==
    <<"v", "e", "r", "s", "i", "o", "n", ":", " ", Placeholder>>

\* the files lists of the initial configs
FileLists ==
    { <<FilePath("f1")>>,
      <<FilePath("f1"), FilePath("f2")>>,
      <<FilePath("f1"), SearchPattern("f2", TemplateV)>>,
      <<SearchPattern("f2", TemplateV), FilePath("f1")>>,
      <<FilePath("f1"), FilePath("f1")>>,
      <<FilePath("./f1")>> }

\* the semantic versions of the initial configs: canonical, with a number
\* about to gain a digit, with a leading zero
InitSemantic ==
    { Sem(<<"0">>, <<"0">>, <<"0">>),
      Sem(<<"1">>, <<"2">>, <<"9">>),
      Sem(<<"0", "1">>, <<"0">>, <<"0">>) }

\* the current_version values an initial config pairs with semantic version sv
InitVersions(sv) ==
    { sv, sv \o RC \o <<"1">>, sv \o RC \o <<"9">>, Hash1 }

\* the contents a file starts with, given the config's current_version: a
\* plain target's file holds it twice, or not at all, or (for 0.0.0) holds
\* the address 0.0.0.0
InitContent(path, cv) ==
    IF path = "f1"
    THEN { <<"x">> \o cv \o <<"x">> \o cv, <<"n">> }
            \union (IF cv = <<"0", ".", "0", ".", "0">>
                    THEN {<<"0", ".", "0", ".", "0", ".", "0">>} ELSE {})
    ELSE { <<"v", "=">> \o cv,
           <<"v", "=">> \o cv \o <<";", "v", "=">> \o cv,
           <<"n">> }

\* the config file's name
DEFAULT_CONFIG_FILE == "version-upper.json"

\* a config file: current_version, current_semantic_version and files as the
\* JSON document holds them.  NoConfig stands for a file that does not exist.
NoConfig == [current_version |-> <<>>, current_semantic_version |-> <<>>, files |-> <<>>]

\* Config(): the defaults of the schema
DefaultConfig ==
    [current_version |-> Sem(<<"0">>, <<"0">>, <<"0">>),
     current_semantic_version |-> Sem(<<"0">>, <<"0">>, <<"0">>),
     files |-> <<>>]

\* what an invocation reports: the error message (text, with the version
\* and path it names), the text it prints, the config document it prints
NoOutput ==
    [text |-> "", version |-> <<>>, path |-> "", stdout |-> <<>>,
     document |-> NoConfig]

\* the config file exists: open(config_path) does not raise FileNotFoundError
Exists(cfgfile) == cfgfile # NoConfig

\* a files entry passes the validation of its type: a FilePath names an
\* existing file, a DirectoryPath an existing directory, a SearchPattern has
\* exactly one placeholder
ValidEntry(f) ==
    CASE f.kind = "SearchPattern" -> must_contain_current_pattern(f.search_pattern)
      [] f.kind = "DirectoryPath" -> PurePath(f.path) \in Dirs
      [] OTHER -> PurePath(f.path) \in Paths

\* Config(**json.load(f)) raises no ValidationError: the two version fields
\* match their patterns from the start of the text (re.match), and every
\* files entry is valid
Valid(cfgfile) ==
    /\ CURRENT_VERSION_PATTERN(cfgfile.current_version, 1) # <<>>
    /\ SemAt(cfgfile.current_semantic_version, 1).ok
    /\ \A k \in 1..Len(cfgfile.files) : ValidEntry(cfgfile.files[k])

\* a files entry as the loaded config holds it: a FilePath or DirectoryPath
\* is a path object
ParsedEntry(f) ==
    IF f.kind = "SearchPattern" THEN f ELSE [f EXCEPT !.path = PurePath(f.path)]

\* Config(**json.load(f)): the config in memory
Config(cfgfile) ==
    [cfgfile EXCEPT !.files = [k \in 1..Len(cfgfile.files) |->
                                  ParsedEntry(cfgfile.files[k])]]

(***************************************************************************)
(* State.                                                                  *)
(***************************************************************************)
VARIABLES
    config,   \* the config file on disk: current_version, current_semantic_version, files
    fs,       \* the content of every file a target can name
    inv,      \* per invocation: where it stands, its arguments and its locals
    nops,     \* invocations started so far
    last      \* history: the invocation that exited last, if it succeeded

vars == <<config, fs, inv, nops, last>>

\* an invocation that has not started
IdleInv ==
    [pc |-> "idle", command |-> "none", part |-> "none", release_candidate |-> FALSE,
     config |-> NoConfig,               \* version_upper.config, in memory
     old_version |-> <<>>, new_version |-> <<>>, new_semantic_version |-> <<>>,
     idx |-> 0,                         \* position of the for loop in config.files
     content |-> <<>>,                  \* the content about to be written
     exit_code |-> 0, output |-> NoOutput,
     \* history: what the source-control tool reported, the disk when the
     \* invocation started, and its writes
     latest |-> <<>>,
     pre_config |-> NoConfig, pre_fs |-> [f \in Paths |-> <<>>],
     config_writes |-> 0, target_writes |-> 0, persisted_after |-> 0]

\* what is remembered of the invocation that has exited last, when it was a
\* bump or release that succeeded: its command and part, the semantic version
\* it found and the versions it passed to __replace_version_strings
NoLast ==
    [command |-> "none", part |-> "none", pre_semantic |-> <<>>,
     new_version |-> <<>>, new_semantic_version |-> <<>>]

Last(me) ==
    IF me.pc = "done" /\ me.exit_code = 0 /\ me.new_version # <<>>
    THEN [command |-> me.command, part |-> me.part,
          pre_semantic |-> me.pre_config.current_semantic_version,
          new_version |-> me.new_version,
          new_semantic_version |-> me.new_semantic_version]
    ELSE NoLast

\* the files lists of the configs that fail validation: a search pattern
\* without placeholder, one with two, and one that follows a valid entry
BadFileLists ==
    { <<SearchPattern("f2", <<"v", "=">>)>>,
      <<SearchPattern("f2", <<"v", "=", Placeholder, Placeholder>>)>>,
      <<FilePath("f1"), SearchPattern("f2", <<"v", "=">>)>> }

\* the directory holds a valid config and its tracked files: every version
\* with the one-file list, and every files list with the versions of 1.2.9
InitValid ==
    \E sv \in InitSemantic, fl \in FileLists :
        \E cv \in InitVersions(sv) :
            /\ fl # <<FilePath("f1")>> => sv = Sem(<<"1">>, <<"2">>, <<"9">>)
            /\ config = [current_version |-> cv, current_semantic_version |-> sv,
                         files |-> fl]
            /\ \E c1 \in InitContent("f1", cv), c2 \in InitContent("f2", cv) :
                 /\ (\A k \in 1..Len(fl) : fl[k].path # "f2") => c2 = <<"n">>
                 /\ fs = [f \in Paths |-> IF f = "f1" THEN c1 ELSE c2]

\* the directory holds a config whose one target is the search pattern
\* "version: {current_version}" on a file with the content "version: 1.2.3",
\* the config's version, or "version: 9.9.9", another one
InitTemplate ==
    /\ config = [current_version |-> Sem(<<"1">>, <<"2">>, <<"3">>),
                 current_semantic_version |-> Sem(<<"1">>, <<"2">>, <<"3">>),
                 files |-> <<SearchPattern("f2", TemplateVersion)>>]
    /\ \E v \in {Sem(<<"1">>, <<"2">>, <<"3">>), Sem(<<"9">>, <<"9">>, <<"9">>)} :
          fs = [f \in Paths |->
                   IF f = "f2" THEN TemplatePrefix(TemplateVersion) \o v
                   ELSE <<"n">>]

\* the directory holds a config whose one target is the directory d, the
\* file below it holding the current version
InitDirectory ==
    \E cv \in {Sem(<<"1">>, <<"2">>, <<"9">>),
                Sem(<<"1">>, <<"2">>, <<"9">>) \o RC \o <<"1">>} :
        /\ config = [current_version |-> cv,
                     current_semantic_version |-> Sem(<<"1">>, <<"2">>, <<"9">>),
                     files |-> <<DirectoryPath("d")>>]
        /\ fs = [f \in Paths |-> <<"v", "=">> \o cv]

\* the directory holds a config that fails validation, and files that hold
\* the current version or do not
InitInvalid ==
    \E fl \in BadFileLists :
        /\ config = [DefaultConfig EXCEPT !.files = fl]
        /\ \E c \in {<<"v", "=">> \o DefaultConfig.current_version, <<"n">>} :
              fs = [f \in Paths |-> c]

\* the directory holds no config file
InitMissing ==
    /\ config = NoConfig
    /\ fs = [f \in Paths |-> DefaultConfig.current_version]

Init ==
    /\ (InitValid \/ InitTemplate \/ InitDirectory \/ InitInvalid \/ InitMissing)
    /\ inv = [p \in Procs |-> IdleInv]
    /\ nops = 0
    /\ last = NoLast

(***************************************************************************)
(* Outcomes of the code that runs before __replace_version_strings.        *)
(***************************************************************************)
\* The outcome of a command's code: it ended (raised: an exception, or a
\* return after printing), or it called __replace_version_strings.  latest
\* is the revision the source-control tool was asked for, if it was.
Raise(code, text) ==
    [raised |-> TRUE, exit_code |-> code,
     output |-> [NoOutput EXCEPT !.text = text],
     new_version |-> <<>>, new_semantic_version |-> <<>>, latest |-> <<>>]

Call(new_version, new_semantic_version) ==
    [raised |-> FALSE, exit_code |-> 0, output |-> NoOutput,
     new_version |-> new_version, new_semantic_version |-> new_semantic_version,
     latest |-> <<>>]

\* click.echo(text) and a normal return
Echo(text) ==
    [Raise(0, "") EXCEPT !.output.stdout = text \o <<"\n">>]

\* click.FileError(config_path, ...): "Could not open file <config_path>: ..."
FileError ==
    [Raise(1, "Could not open file {filename}")
        EXCEPT !.output.path = DEFAULT_CONFIG_FILE]

\* an uncaught pydantic ValidationError: traceback, exit status 1
ValidationError == Raise(1, "ValidationError")

\* click's rejection of the part argument: exit status 2
UsageError == Raise(2, "UsageError")

\* an uncaught AttributeError (None has no group): traceback, exit status 1
AttributeError == Raise(1, "AttributeError")

\* mutant: the slots after the bumped one are not reset
NewSemanticVersion_KeepsTrailing(part, major, minor, patch) ==
    CASE part = "major" -> Sem(FormatInt(major + 1), FormatInt(minor), FormatInt(patch))
      [] part = "minor" -> Sem(FormatInt(major), FormatInt(minor + 1), FormatInt(patch))
      [] part = "patch" -> Sem(FormatInt(major), FormatInt(minor), FormatInt(patch + 1))
      [] OTHER -> Sem(FormatInt(major), FormatInt(minor), FormatInt(patch))

\* mutant: a bump of minor resets the major number
NewSemanticVersion_ResetsMajor(part, major, minor, patch) ==
    CASE part = "major" -> Sem(FormatInt(major + 1), <<"0">>, <<"0">>)
      [] part = "minor" -> Sem(<<"0">>, FormatInt(minor + 1), <<"0">>)
      [] part = "patch" -> Sem(FormatInt(major), FormatInt(minor), FormatInt(patch + 1))
      [] OTHER -> Sem(FormatInt(major), FormatInt(minor), FormatInt(patch))

\* the new semantic version of __bump_semantic
NewSemanticVersion(part, major, minor, patch) ==
    CASE part = "major" -> Sem(FormatInt(major + 1), <<"0">>, <<"0">>)
      [] part = "minor" -> Sem(FormatInt(major), FormatInt(minor + 1), <<"0">>)
      [] part = "patch" -> Sem(FormatInt(major), FormatInt(minor), FormatInt(patch + 1))
      [] OTHER -> Sem(FormatInt(major), FormatInt(minor), FormatInt(patch))

\* the rc branch of __bump_semantic: the next release candidate, or <<>>
\* when rc_pattern finds nothing and .group raises
NextReleaseCandidate1(current_version, current_semantic_version, i) ==
    IF i = 0 THEN <<>>
    ELSE current_semantic_version \o RC
            \o FormatInt(ParseInt(Span(current_version,
                                       RcAt(current_version, i).rc)) + 1)

NextReleaseCandidate(current_version, current_semantic_version) ==
    IF ~Contains(current_version, RC)
    THEN current_version \o RC \o <<"1">>
    ELSE NextReleaseCandidate1(current_version, current_semantic_version,
                               rc_pattern(current_version))

\* mutant: the suffix is appended whatever the flag
WithReleaseCandidate_Always(new_version, release_candidate) ==
    new_version \o RC \o <<"1">>

\* mutant: the flag is ignored
WithReleaseCandidate_Never(new_version, release_candidate) == new_version

\* if release_candidate: new_version = new_version + "rc1"
WithReleaseCandidate(new_version, release_candidate) ==
    IF release_candidate THEN new_version \o RC \o <<"1">> ELSE new_version

\* __bump_semantic once major, minor and patch are parsed
BumpSemantic2(part, release_candidate, new_version, new_semantic_version) ==
    IF new_version = <<>>
    THEN AttributeError
    ELSE Call(WithReleaseCandidate(new_version, release_candidate),
              new_semantic_version)

BumpSemantic1(cfg, part, release_candidate, new_semantic_version) ==
    BumpSemantic2(part, release_candidate,
                  IF part = "rc"
                  THEN NextReleaseCandidate(cfg.current_version,
                                            cfg.current_semantic_version)
                  ELSE new_semantic_version,
                  new_semantic_version)

__bump_semantic(cfg, part, release_candidate) ==
    IF part = "rc" /\ release_candidate
    THEN Raise(2, "Cannot use --release-candidate when bumping rc")
    ELSE IF SemSearch(cfg.current_semantic_version) = 0
         THEN AttributeError
         ELSE BumpSemantic1(cfg, part, release_candidate,
                  NewSemanticVersion(part,
                      ParseInt(major_pattern(cfg.current_semantic_version)),
                      ParseInt(minor_pattern(cfg.current_semantic_version)),
                      ParseInt(patch_pattern(cfg.current_semantic_version))))

\* subprocess.check_output(["git", "log", ...]) reported latest, then the call
GitLog(latest, new_semantic_version) ==
    [Call(latest, new_semantic_version) EXCEPT !.latest = latest]

\* mutant: the hash is passed as the new semantic version too
BumpCommitHash_SetsSemantic(latest) == GitLog(latest, latest)

\* latest is what the source-control tool reports
__bump_commit_hash(latest) == GitLog(latest, None)

\* mutant: the flag is not examined for commit_hash
bump_FlagUnchecked(cfg, part, release_candidate, latest) ==
    IF part = "commit_hash"
    THEN __bump_commit_hash(latest)
    ELSE __bump_semantic(cfg, part, release_candidate)

bump(cfg, part, release_candidate, latest) ==
    IF part = "commit_hash"
    THEN IF release_candidate
         THEN Raise(2, "Cannot use --release-candidate when bumping commit_hash")
         ELSE __bump_commit_hash(latest)
    ELSE __bump_semantic(cfg, part, release_candidate)

\* mutant: the whole current_version is taken
ReleasedVersion_KeepsRc(current_version) == current_version

\* group(1) of new_version_pattern in release
ReleasedVersion(current_version) ==
    Span(current_version,
         NewVersionAt(current_version, new_version_pattern(current_version)).semantic)

\* mutant: the semantic version keeps a suffix
Released_SemanticWithRc(new_version) ==
    Call(new_version, new_version \o RC \o <<"1">>)

Released(new_version) == Call(new_version, new_version)

\* mutant: the test for a release candidate is dropped
release_Unchecked(cfg) ==
    Released(IF rc_pattern(cfg.current_version) = 0
             THEN cfg.current_version
             ELSE ReleasedVersion(cfg.current_version))

release(cfg) ==
    IF rc_pattern(cfg.current_version) = 0
    THEN Raise(1, "Unable to release if current version does not contain rc")
    ELSE Released(ReleasedVersion(cfg.current_version))

(***************************************************************************)
(* Steps of an invocation.                                                 *)
(***************************************************************************)
\* the commands for which the group callback loads no config
NoConfigCommands == {"config-schema", "sample-config"}

\* the group callback: for a command that needs the config, VersionUpper is
\* constructed first, and the command, whose outcome is r, runs only if that
\* raised nothing
\* mutant: the config is loaded for every command
version_upper_AlwaysLoads(command, cfgfile, r) ==
    IF ~Exists(cfgfile) THEN FileError
    ELSE IF ~Valid(cfgfile) THEN ValidationError
    ELSE r

\* mutant: a usage error of the command is reported before the config is
\* loaded
version_upper_UsageFirst(command, cfgfile, r) ==
    IF command \in NoConfigCommands \/ (r.raised /\ r.exit_code = 2) THEN r
    ELSE IF ~Exists(cfgfile) THEN FileError
    ELSE IF ~Valid(cfgfile) THEN ValidationError
    ELSE r

version_upper(command, cfgfile, r) ==
    IF command \in NoConfigCommands THEN r
    ELSE IF ~Exists(cfgfile) THEN FileError
    ELSE IF ~Valid(cfgfile) THEN ValidationError
    ELSE r

\* VersionUpper.__init__: the invocation starts and, if the group callback
\* loaded the config file, holds the config in memory
VersionUpper(command, part, release_candidate) ==
    [IdleInv EXCEPT !.command = command, !.part = part,
                    !.release_candidate = release_candidate,
                    !.config = IF /\ command \notin NoConfigCommands
                                  /\ Exists(config) /\ Valid(config)
                               THEN Config(config) ELSE NoConfig,
                    !.pre_config = config, !.pre_fs = fs]

\* the command's outcome r: it raised, or it called __replace_version_strings,
\* which first reads old_version from the config in memory
Enter(me, r) ==
    IF r.raised
    THEN [me EXCEPT !.pc = "done", !.exit_code = r.exit_code, !.output = r.output,
                    !.latest = r.latest]
    ELSE [me EXCEPT !.pc = "replace",
                    !.latest = r.latest,
                    !.old_version = me.config.current_version,
                    !.new_version = r.new_version,
                    !.new_semantic_version = r.new_semantic_version,
                    !.idx = 1]

BumpParts == {"major", "minor", "patch", "rc", "commit_hash"}

\* what the command line can give as the part: a member of BumpPart, another
\* word, or nothing
Parts == BumpParts \union {"bogus", ""}

\* click.Choice(list(BumpPart)) on the part argument, then the command
Choice(cfg, part, release_candidate, latest) ==
    IF part \notin BumpParts
    THEN UsageError
    ELSE bump(cfg, part, release_candidate, latest)

\* version-upper bump <part> [--release-candidate], up to the first target;
\* latest is what the source-control tool would report
Bump(p, part, release_candidate) ==
    /\ inv[p].pc = "idle"
    /\ nops < MaxOps
    /\ \E latest \in IF part = "commit_hash" THEN Hashes ELSE {<<>>} :
         inv' = [inv EXCEPT ![p] =
                    Enter(VersionUpper("bump", part, release_candidate),
                          version_upper("bump", config,
                              Choice(Config(config), part, release_candidate,
                                     latest)))]
    /\ nops' = nops + 1
    /\ UNCHANGED <<config, fs, last>>

\* version-upper release, up to the first target
Release(p) ==
    /\ inv[p].pc = "idle"
    /\ nops < MaxOps
    /\ inv' = [inv EXCEPT ![p] =
                  Enter(VersionUpper("release", "none", FALSE),
                        version_upper("release", config, release(Config(config))))]
    /\ nops' = nops + 1
    /\ UNCHANGED <<config, fs, last>>

\* mutant: the other field is printed
current_version_OtherField(cfg) == Echo(cfg.current_semantic_version)

\* the bodies of the commands that only print
current_version(cfg) == Echo(cfg.current_version)

\* mutant: the command writes the versions it read back to the targets and
\* the config
current_semantic_version_Persists(cfg) ==
    Call(cfg.current_version, cfg.current_semantic_version)

current_semantic_version(cfg) == Echo(cfg.current_semantic_version)

\* Config.schema_json(): the schema, as one token
config_schema == Echo(<<"Config.schema_json()">>)

\* mutant: the printed document has an empty current_version
sample_config_NoVersion ==
    [Echo(<<>>) EXCEPT !.output.document =
                          [DefaultConfig EXCEPT !.current_version = <<>>]]

\* Config().json(indent=2): the document of the defaults
sample_config == [Echo(<<>>) EXCEPT !.output.document = DefaultConfig]

\* version-upper current-version
CurrentVersion(p) ==
    /\ inv[p].pc = "idle"
    /\ nops < MaxOps
    /\ inv' = [inv EXCEPT ![p] =
                  Enter(VersionUpper("current-version", "none", FALSE),
                        version_upper("current-version", config,
                                      current_version(Config(config))))]
    /\ nops' = nops + 1
    /\ UNCHANGED <<config, fs, last>>

\* version-upper current-semantic-version
CurrentSemanticVersion(p) ==
    /\ inv[p].pc = "idle"
    /\ nops < MaxOps
    /\ inv' = [inv EXCEPT ![p] =
                  Enter(VersionUpper("current-semantic-version", "none", FALSE),
                        version_upper("current-semantic-version", config,
                                      current_semantic_version(Config(config))))]
    /\ nops' = nops + 1
    /\ UNCHANGED <<config, fs, last>>

\* version-upper config-schema
ConfigSchema(p) ==
    /\ inv[p].pc = "idle"
    /\ nops < MaxOps
    /\ inv' = [inv EXCEPT ![p] =
                  Enter(VersionUpper("config-schema", "none", FALSE),
                        version_upper("config-schema", config, config_schema))]
    /\ nops' = nops + 1
    /\ UNCHANGED <<config, fs, last>>

\* version-upper sample-config
SampleConfig(p) ==
    /\ inv[p].pc = "idle"
    /\ nops < MaxOps
    /\ inv' = [inv EXCEPT ![p] =
                  Enter(VersionUpper("sample-config", "none", FALSE),
                        version_upper("sample-config", config, sample_config))]
    /\ nops' = nops + 1
    /\ UNCHANGED <<config, fs, last>>

\* content with the characters a..b replaced by new_version, or content
\* itself when they already are new_version
Replaced(content, a, b, new_version) ==
    IF SubSeq(content, a, b) = new_version
    THEN content
    ELSE SubSeq(content, 1, a - 1) \o new_version
            \o SubSeq(content, b + 1, Len(content))

\* mutant: only the first occurrence is replaced
PlainContent_FirstOnly(content, old_version, new_version) ==
    IF ~Contains(content, old_version)
    THEN content
    ELSE Replaced(content,
                  Min({i \in 1..Len(content) :
                          LiteralAt(content, i, old_version)}),
                  Min({i \in 1..Len(content) :
                          LiteralAt(content, i, old_version)})
                     + Len(old_version) - 1,
                  new_version)

\* mutant: the file is written back as it was read
PlainContent_Unchanged(content, old_version, new_version) == content

\* the plain branch of the loop, after the read: the content to write
PlainContent(content, old_version, new_version) ==
    StrReplace(content, old_version, new_version)

\* mutant: the test is dropped
VersionMissing_Never(content, old_version) == FALSE

\* the plain branch's test: old_version not in content
VersionMissing(content, old_version) == ~Contains(content, old_version)

\* the search-pattern branch of the loop, after the read
PatternTarget(me, spliced) ==
    IF spliced.halts
    THEN [me EXCEPT !.pc = "write", !.content = spliced.content]
    ELSE [me EXCEPT !.pc = "hang"]

\* the plain branch of the loop, after the read
PlainTarget(me, f, content) ==
    IF VersionMissing(content, me.old_version)
    THEN [me EXCEPT !.pc = "done", !.exit_code = 1,
                    !.output = [NoOutput EXCEPT
                                   !.text = "Unable to find {old_version} in {f}",
                                   !.version = me.old_version,
                                   !.path = f.path]]
    ELSE [me EXCEPT !.pc = "write",
                    !.content = PlainContent(content, me.old_version,
                                             me.new_version)]

\* the else branch of the loop for an entry that names a directory: open(f)
\* raises IsADirectoryError, which nothing catches: traceback, exit status 1
DirectoryTarget(me, f) ==
    [me EXCEPT !.pc = "done", !.exit_code = 1,
               !.output = [NoOutput EXCEPT !.text = "IsADirectoryError",
                                           !.path = f.path]]

\* mutant: a search-pattern target is handled as a plain one
Target_AllPlain(me, f, content) ==
    IF f.kind = "DirectoryPath"
    THEN DirectoryTarget(me, f)
    ELSE PlainTarget(me, f, content)

\* one iteration of the for loop up to its write: f is read and the content
\* to write is computed
Target(me, f, content) ==
    CASE f.kind = "SearchPattern" ->
            PatternTarget(me,
                SpliceLoop(content, TemplatePrefix(f.search_pattern),
                           TemplateSuffix(f.search_pattern),
                           me.new_version, MaxSplice))
      [] f.kind = "DirectoryPath" -> DirectoryTarget(me, f)
      [] OTHER -> PlainTarget(me, f, content)

\* fp.read() of the file at path; a directory has no content to read
FileContent(path) == IF path \in Paths THEN fs[path] ELSE <<>>

\* the loop of __replace_version_strings reaches a target and reads its file;
\* a plain target that lacks old_version raises
ReadTarget(p) ==
    /\ inv[p].pc = "replace"
    /\ inv[p].idx <= Len(inv[p].config.files)
    /\ inv' = [inv EXCEPT ![p] =
                  Target(inv[p], inv[p].config.files[inv[p].idx],
                         FileContent(inv[p].config.files[inv[p].idx].path))]
    /\ UNCHANGED <<config, fs, nops, last>>

\* the invocation after the write of its target
Written(me) ==
    [me EXCEPT !.pc = "replace", !.idx = me.idx + 1, !.content = <<>>,
               !.target_writes = me.target_writes + 1]

\* the target's file is written and the loop moves on
WriteTarget(p) ==
    /\ inv[p].pc = "write"
    /\ fs' = [fs EXCEPT ![inv[p].config.files[inv[p].idx].path] = inv[p].content]
    /\ inv' = [inv EXCEPT ![p] = Written(inv[p])]
    /\ UNCHANGED <<config, nops, last>>

\* mutant: the config is written after the first target
LoopDone_AfterFirst(me) == me.idx > 1

\* the for loop over config.files is over
LoopDone(me) == me.idx > Len(me.config.files)

\* mutant: the config is written back as it was loaded
UpdatedConfig_AsLoaded(cfg, new_version, new_semantic_version) == cfg

\* the config in memory after the assignments that follow the loop
UpdatedConfig(cfg, new_version, new_semantic_version) ==
    [cfg EXCEPT !.current_version = new_version,
                !.current_semantic_version =
                    IF Truthy(new_semantic_version)
                    THEN new_semantic_version ELSE @]

\* the invocation after the config is written
Persisted(me, updated) ==
    [me EXCEPT !.pc = "done", !.exit_code = 0,
               !.config = updated,
               !.config_writes = me.config_writes + 1,
               !.persisted_after = me.target_writes]

\* after the loop: the config in memory is updated and written to the file
PersistConfig(p) ==
    /\ inv[p].pc = "replace"
    /\ LoopDone(inv[p])
    /\ config' = UpdatedConfig(inv[p].config, inv[p].new_version,
                               inv[p].new_semantic_version)
    /\ inv' = [inv EXCEPT ![p] = Persisted(inv[p], config')]
    /\ UNCHANGED <<fs, nops, last>>

\* the process exits
Exit(p) ==
    /\ inv[p].pc = "done"
    /\ inv' = [inv EXCEPT ![p] = IdleInv]
    /\ last' = Last(inv[p])
    /\ UNCHANGED <<config, fs, nops>>

Next ==
    \E p \in Sequential :
        \/ \E part \in Parts, release_candidate \in BOOLEAN :
              Bump(p, part, release_candidate)
        \/ Release(p)
        \/ CurrentVersion(p)
        \/ CurrentSemanticVersion(p)
        \/ ConfigSchema(p)
        \/ SampleConfig(p)
        \/ ReadTarget(p)
        \/ WriteTarget(p)
        \/ PersistConfig(p)
        \/ Exit(p)

Spec == Init /\ [][Next]_vars

(***************************************************************************)
(* Vocabulary of the properties.                                           *)
(***************************************************************************)
Max(S) == CHOOSE x \in S : \A y \in S : x >= y

\* a non-empty string of decimal digits
IsNumber(s) == Len(s) >= 1 /\ \A i \in 1..Len(s) : IsDigit(s[i])

DotsOf(s) == {i \in 1..Len(s) : s[i] = "."}

\* the three parts of a text with exactly two dots
Part1(s) == SubSeq(s, 1, Min(DotsOf(s)) - 1)
Part2(s) == SubSeq(s, Min(DotsOf(s)) + 1, Max(DotsOf(s)) - 1)
Part3(s) == SubSeq(s, Max(DotsOf(s)) + 1, Len(s))

\* exactly M.N.P: three numbers, two dots, nothing else
IsSemantic(s) ==
    /\ Cardinality(DotsOf(s)) = 2
    /\ IsNumber(Part1(s)) /\ IsNumber(Part2(s)) /\ IsNumber(Part3(s))

\* the integers (M, N, P) of a text M.N.P
Triple(s) == <<ParseInt(Part1(s)), ParseInt(Part2(s)), ParseInt(Part3(s))>>

RcsOf(s) == {i \in 1..(Len(s) - 1) : s[i] = "r" /\ s[i + 1] = "c"}

HasRc(s) == RcsOf(s) # {}

\* the text before and after the last "rc"
BeforeRc(s) == SubSeq(s, 1, Max(RcsOf(s)) - 1)
AfterRc(s) == SubSeq(s, Max(RcsOf(s)) + 2, Len(s))

\* exactly M.N.PrcK
IsReleaseCandidate(s) ==
    HasRc(s) /\ IsSemantic(BeforeRc(s)) /\ IsNumber(AfterRc(s))

\* exactly 40 lowercase hex digits
IsCommitHash(s) == Len(s) = HashLen /\ \A i \in 1..Len(s) : IsHex(s[i])

Succeeded(me) == me.pc = "done" /\ me.exit_code = 0

\* the command got as far as __replace_version_strings
Replacing(me) == me.new_version # <<>>

NotFound(me) == me.output.text = "Unable to find {old_version} in {f}"

\* the paths of the targets before position k of the files list
PathsBefore(files, k) == {files[j].path : j \in 1..(k - 1)}

\* the plain targets that are the first in the list to name their file
FreshPlain(files) ==
    {k \in 1..Len(files) :
        files[k].kind = "FilePath" /\ files[k].path \notin PathsBefore(files, k)}

SemanticParts == {"major", "minor", "patch"}

(***************************************************************************)
(* Properties.                                                             *)
(***************************************************************************)

\* C1, as stated: when some plain target's file does not contain the old
\* current_version, the bump or release ends with status 1 and the message
\* "Unable to find <old_version> in <path>", and the config file and every
\* tracked file are as they were before the command.
C1_NothingChangesOnMissingVersion ==
    \A p \in Procs :
        (/\ inv[p].pc = "done"
         /\ Replacing(inv[p])
         /\ \E k \in FreshPlain(inv[p].config.files) :
               ~Contains(inv[p].pre_fs[inv[p].config.files[k].path],
                         inv[p].old_version))
        => /\ inv[p].exit_code = 1
           /\ NotFound(inv[p])
           /\ inv[p].output.version = inv[p].pre_config.current_version
           /\ config = inv[p].pre_config
           /\ fs = inv[p].pre_fs

\* C1, amended: targets are checked and written one at a time, in list order.
\* When some plain target's file does not contain the old current_version, the
\* bump or release ends with status 1 and the message naming the old version
\* and the first such target; the config file, that target's file and every
\* file that no earlier target names are as they were; the targets before it
\* have been written.
C1_MissingVersionStopsAtTarget ==
    \A p \in Procs :
        /\ (/\ inv[p].pc = "done"
            /\ Replacing(inv[p])
            /\ \E k \in FreshPlain(inv[p].config.files) :
                  ~Contains(inv[p].pre_fs[inv[p].config.files[k].path],
                            inv[p].old_version))
           => inv[p].exit_code = 1 /\ NotFound(inv[p])
        /\ (inv[p].pc = "done" /\ NotFound(inv[p]))
           => /\ inv[p].exit_code = 1
              /\ inv[p].output.version = inv[p].pre_config.current_version
              /\ inv[p].idx \in 1..Len(inv[p].config.files)
              /\ inv[p].output.path = inv[p].config.files[inv[p].idx].path
              /\ inv[p].config.files[inv[p].idx].kind = "FilePath"
              /\ ~Contains(fs[inv[p].output.path], inv[p].old_version)
              /\ config = inv[p].pre_config
              /\ inv[p].config = Config(inv[p].pre_config)
              /\ inv[p].target_writes = inv[p].idx - 1
              /\ \A f \in Paths \ PathsBefore(inv[p].config.files, inv[p].idx) :
                    fs[f] = inv[p].pre_fs[f]

\* C1's case: the second target lacks the old version and the first target's
\* file has been rewritten before the command failed
C1_Witness ==
    \E p \in Procs :
        /\ inv[p].pc = "done" /\ NotFound(inv[p])
        /\ inv[p].idx = 2
        /\ fs["f1"] # inv[p].pre_fs["f1"]
        /\ fs["f2"] = inv[p].pre_fs["f2"]

\* C2: an invocation writes the config file at most once: once, after the
\* last target has been written and with no target written afterwards, when
\* it succeeds; not at all when it fails, the config on disk and in memory
\* keeping the old values.
C2_ConfigWrittenOnceAtTheEnd ==
    \A p \in Procs :
        /\ inv[p].config_writes <= 1
        /\ Succeeded(inv[p]) /\ Replacing(inv[p]) => inv[p].config_writes = 1
        /\ inv[p].config_writes = 1
           => /\ Succeeded(inv[p])
              /\ inv[p].persisted_after = Len(inv[p].config.files)
              /\ inv[p].target_writes = Len(inv[p].config.files)
              /\ config.current_version = inv[p].new_version
        /\ (inv[p].pc # "idle" /\ ~Succeeded(inv[p]))
           => /\ inv[p].config_writes = 0
              /\ config = inv[p].pre_config
              /\ inv[p].config \in {NoConfig, Config(inv[p].pre_config)}

\* C2's case: a command over two targets has succeeded and has written the
\* config once, after both
C2_Witness ==
    \E p \in Procs :
        /\ Succeeded(inv[p])
        /\ Len(inv[p].config.files) = 2
        /\ inv[p].config_writes = 1
        /\ inv[p].persisted_after = 2
        /\ config # inv[p].pre_config

\* C3: the current_version of the config file is always exactly M.N.P, exactly
\* M.N.PrcK, or exactly a 40-character lowercase hex commit hash.
C3_VersionShape ==
    Exists(config)
    => \/ IsSemantic(config.current_version)
       \/ IsReleaseCandidate(config.current_version)
       \/ IsCommitHash(config.current_version)

\* the integers a bump of part makes of (M, N, P)
Bumped(part, t) ==
    CASE part = "major" -> <<t[1] + 1, 0, 0>>
      [] part = "minor" -> <<t[1], t[2] + 1, 0>>
      [] part = "patch" -> <<t[1], t[2], t[3] + 1>>

\* the text "M.N.P" of three integers, each in decimal without padding
SemText(t) == Sem(FormatInt(t[1]), FormatInt(t[2]), FormatInt(t[3]))

\* C4: a successful bump major, minor or patch of a semantic version M.N.P
\* sets current_semantic_version to (M+1).0.0, M.(N+1).0 or M.N.(P+1).
C4_BumpIncrementsOneSlot ==
    \A p \in Procs :
        (/\ Succeeded(inv[p])
         /\ inv[p].command = "bump"
         /\ inv[p].part \in SemanticParts
         /\ IsSemantic(inv[p].pre_config.current_semantic_version))
        => /\ IsSemantic(config.current_semantic_version)
           /\ Triple(config.current_semantic_version)
                = Bumped(inv[p].part,
                         Triple(inv[p].pre_config.current_semantic_version))
           /\ config.current_semantic_version
                = SemText(Triple(config.current_semantic_version))

\* C4's case: a bump major of 1.2.9 has succeeded and left 2.0.0
C4_Witness ==
    \E p \in Procs :
        /\ Succeeded(inv[p])
        /\ inv[p].command = "bump"
        /\ inv[p].part = "major"
        /\ Triple(inv[p].pre_config.current_semantic_version) = <<1, 2, 9>>
        /\ Triple(config.current_semantic_version) = <<2, 0, 0>>

\* C5: a successful bump major, minor or patch without --release-candidate
\* sets current_version to the new current_semantic_version, which the part
\* and the old current_semantic_version determine, whatever the old
\* current_version was.
C5_VersionIsNewSemantic ==
    \A p \in Procs :
        (/\ Succeeded(inv[p])
         /\ inv[p].command = "bump"
         /\ inv[p].part \in SemanticParts
         /\ ~inv[p].release_candidate)
        => /\ config.current_version = config.current_semantic_version
           /\ config.current_version
                = SemText(Bumped(inv[p].part,
                                 Triple(inv[p].pre_config.current_semantic_version)))

\* C5's case: the bump started from a commit hash
C5_Witness ==
    \E p \in Procs :
        /\ Succeeded(inv[p])
        /\ inv[p].command = "bump"
        /\ inv[p].part \in SemanticParts
        /\ ~inv[p].release_candidate
        /\ IsCommitHash(inv[p].pre_config.current_version)
        /\ IsSemantic(config.current_version)

\* C6: a successful bump major, minor or patch with --release-candidate sets
\* current_version to the bumped semantic version followed by "rc1" and
\* current_semantic_version to the bumped semantic version without suffix,
\* whatever the old current_version was.
C6_ReleaseCandidateOfBump ==
    \A p \in Procs :
        (/\ Succeeded(inv[p])
         /\ inv[p].command = "bump"
         /\ inv[p].part \in SemanticParts
         /\ inv[p].release_candidate)
        => /\ config.current_semantic_version
                = SemText(Bumped(inv[p].part,
                                 Triple(inv[p].pre_config.current_semantic_version)))
           /\ config.current_version
                = config.current_semantic_version \o <<"r", "c", "1">>
           /\ ~HasRc(config.current_semantic_version)

\* C6's case: the bump started from a release candidate with a counter above 1
C6_Witness ==
    \E p \in Procs :
        /\ Succeeded(inv[p])
        /\ inv[p].command = "bump"
        /\ inv[p].part \in SemanticParts
        /\ inv[p].release_candidate
        /\ IsReleaseCandidate(inv[p].pre_config.current_version)
        /\ ParseInt(AfterRc(inv[p].pre_config.current_version)) > 1
        /\ IsReleaseCandidate(config.current_version)

\* C7: a successful bump rc on a current_version V without rc suffix sets
\* current_version to V followed by "rc1" and leaves
\* current_semantic_version unchanged.
C7_FirstReleaseCandidate ==
    \A p \in Procs :
        (/\ Succeeded(inv[p])
         /\ inv[p].command = "bump"
         /\ inv[p].part = "rc"
         /\ ~HasRc(inv[p].pre_config.current_version))
        => /\ config.current_version
                = inv[p].pre_config.current_version \o <<"r", "c", "1">>
           /\ config.current_semantic_version
                = inv[p].pre_config.current_semantic_version

\* C8: whenever current_version carries an rc suffix with counter k, a bump
\* rc (whose targets hold the old version) succeeds, sets current_version to
\* the same text before the suffix followed by rc(k+1), and leaves
\* current_semantic_version unchanged.
C8_NextReleaseCandidate ==
    \A p \in Procs :
        (/\ inv[p].pc = "done"
         /\ inv[p].command = "bump"
         /\ inv[p].part = "rc"
         /\ ~inv[p].release_candidate
         /\ HasRc(inv[p].pre_config.current_version)
         /\ ~NotFound(inv[p]))
        => /\ Succeeded(inv[p])
           /\ config.current_version
                = BeforeRc(inv[p].pre_config.current_version) \o RC
                    \o FormatInt(ParseInt(AfterRc(inv[p].pre_config.current_version)) + 1)
           /\ config.current_semantic_version
                = inv[p].pre_config.current_semantic_version

\* C9: a successful bump commit_hash sets current_version to the revision
\* the source-control tool reported and leaves current_semantic_version as it
\* was.
C9_CommitHashKeepsSemantic ==
    \A p \in Procs :
        (/\ Succeeded(inv[p])
         /\ inv[p].command = "bump"
         /\ inv[p].part = "commit_hash")
        => /\ config.current_version = inv[p].latest
           /\ inv[p].latest \in Hashes
           /\ config.current_semantic_version
                = inv[p].pre_config.current_semantic_version

\* C9's case: the bump replaced an earlier commit hash by another one
C9_Witness ==
    \E p \in Procs :
        /\ Succeeded(inv[p])
        /\ inv[p].command = "bump"
        /\ inv[p].part = "commit_hash"
        /\ IsCommitHash(inv[p].pre_config.current_version)
        /\ config.current_version # inv[p].pre_config.current_version

\* C10: a successful release on a current_version M.N.PrcK sets both
\* current_version and current_semantic_version to M.N.P.
C10_ReleaseStripsRc ==
    \A p \in Procs :
        (/\ Succeeded(inv[p])
         /\ inv[p].command = "release"
         /\ IsReleaseCandidate(inv[p].pre_config.current_version))
        => /\ config.current_version = BeforeRc(inv[p].pre_config.current_version)
           /\ config.current_semantic_version
                = BeforeRc(inv[p].pre_config.current_version)

\* C10's case: the released version had the counter 10
C10_Witness ==
    \E p \in Procs :
        /\ Succeeded(inv[p])
        /\ inv[p].command = "release"
        /\ IsReleaseCandidate(inv[p].pre_config.current_version)
        /\ ParseInt(AfterRc(inv[p].pre_config.current_version)) = 10
        /\ IsSemantic(config.current_version)

\* the invocation got its config loaded by the group callback
Loaded(me) == me.config # NoConfig

NotReleaseCandidate(me) ==
    me.output.text = "Unable to release if current version does not contain rc"

\* C11: a release on a loaded current_version that is not of the form
\* M.N.PrcK (a plain semantic version, a commit hash) ends with status 1 and
\* the message "Unable to release if current version does not contain rc",
\* having written nothing: the config file and every tracked file are as they
\* were.
C11_ReleaseNeedsRc ==
    \A p \in Procs :
        (/\ inv[p].pc # "idle"
         /\ inv[p].command = "release"
         /\ Loaded(inv[p])
         /\ ~IsReleaseCandidate(inv[p].pre_config.current_version))
        => /\ inv[p].pc = "done"
           /\ inv[p].exit_code = 1
           /\ NotReleaseCandidate(inv[p])
           /\ inv[p].target_writes = 0
           /\ inv[p].config_writes = 0
           /\ config = inv[p].pre_config
           /\ fs = inv[p].pre_fs

\* C11's case: a release was refused on a commit hash whose files hold it
C11_Witness ==
    \E p \in Procs :
        /\ inv[p].pc = "done"
        /\ inv[p].command = "release"
        /\ IsCommitHash(inv[p].pre_config.current_version)
        /\ Contains(fs["f1"], inv[p].pre_config.current_version)
        /\ NotReleaseCandidate(inv[p])

\* the invocation that exited last was a successful bump rc
AfterBumpRc == last.command = "bump" /\ last.part = "rc"

\* C12: a release that follows a successful bump rc succeeds and leaves
\* current_version equal to current_semantic_version, without rc suffix, and
\* equal to the current_semantic_version stored before the bump rc.
C12_RoundTrip ==
    \A p \in Procs :
        (/\ inv[p].pc = "done"
         /\ inv[p].command = "release"
         /\ AfterBumpRc)
        => /\ Succeeded(inv[p])
           /\ config.current_version = config.current_semantic_version
           /\ ~HasRc(config.current_version)
           /\ config.current_version = last.pre_semantic

\* bump rc --release-candidate or bump commit_hash --release-candidate
ForbiddenFlag(me) ==
    /\ me.command = "bump"
    /\ me.part \in {"rc", "commit_hash"}
    /\ me.release_candidate

\* the message of the usage error for the part
CannotUseFlag(me) ==
    me.output.text =
        (IF me.part = "rc"
         THEN "Cannot use --release-candidate when bumping rc"
         ELSE "Cannot use --release-candidate when bumping commit_hash")

\* nothing was written and the source-control tool was not asked
Untouched(me) ==
    /\ me.latest = <<>>
    /\ me.target_writes = 0
    /\ me.config_writes = 0
    /\ config = me.pre_config
    /\ fs = me.pre_fs

UsageErrorCase(me) ==
    me.command = "bump" /\ (me.part \notin BumpParts \/ ForbiddenFlag(me))

CouldNotOpen(me) ==
    /\ me.output.text = "Could not open file {filename}"
    /\ me.output.path = DEFAULT_CONFIG_FILE

\* C14, as stated: a usage error is detected before the config is loaded, so
\* it is the outcome (status 2) whether or not the config file exists or is
\* valid.
C14_UsageErrorBeforeLoad ==
    \A p \in Procs :
        (inv[p].pc # "idle" /\ UsageErrorCase(inv[p]))
        => /\ inv[p].pc = "done"
           /\ inv[p].exit_code = 2

\* C14, amended: the config file is loaded before a usage error of bump is
\* detected.  The usage error (status 2) is the outcome only when the config
\* file exists and is valid; a missing config file gives status 1 and "Could
\* not open file <path>", an invalid one status 1 from its validation.  In
\* every case nothing is written.
C14_UsageErrorAfterLoad ==
    \A p \in Procs :
        (inv[p].pc # "idle" /\ UsageErrorCase(inv[p]))
        => /\ inv[p].pc = "done"
           /\ (Exists(inv[p].pre_config) /\ Valid(inv[p].pre_config))
              => inv[p].exit_code = 2 /\ Loaded(inv[p])
           /\ ~Exists(inv[p].pre_config)
              => inv[p].exit_code = 1 /\ CouldNotOpen(inv[p])
           /\ (Exists(inv[p].pre_config) /\ ~Valid(inv[p].pre_config))
              => inv[p].exit_code = 1 /\ inv[p].output.text = "ValidationError"
           /\ inv[p].target_writes = 0 /\ inv[p].config_writes = 0
           /\ config = inv[p].pre_config
           /\ fs = inv[p].pre_fs

\* C14's case: a bump without part, in a directory without config file, ended
\* with the config error
C14_Witness ==
    \E p \in Procs :
        /\ inv[p].pc = "done"
        /\ inv[p].command = "bump"
        /\ inv[p].part = ""
        /\ ~Exists(config)
        /\ inv[p].exit_code = 1
        /\ CouldNotOpen(inv[p])

\* the positions of content where the template of the search-pattern target
\* f matches
MatchesOf(f, content) ==
    {i \in 1..Len(content) :
        TemplateAt(content, i, TemplatePrefix(f.search_pattern),
                   TemplateSuffix(f.search_pattern)).ok}

\* the version value captured by the match at position i
CapturedAt(f, content, i) ==
    Span(content,
         TemplateAt(content, i, TemplatePrefix(f.search_pattern),
                    TemplateSuffix(f.search_pattern)).current_version)

\* the search-pattern targets of a files list
PatternTargets(files) == {k \in 1..Len(files) : files[k].kind = "SearchPattern"}

\* C15: once a bump or release has succeeded, every match of a search-pattern
\* target's template in its file has new_version as its captured value, also
\* when the file holds several matches.
C15_EveryMatchReplaced ==
    \A p \in Procs :
        (Succeeded(inv[p]) /\ Replacing(inv[p]))
        => \A k \in PatternTargets(inv[p].config.files) :
              \A i \in MatchesOf(inv[p].config.files[k],
                                  fs[inv[p].config.files[k].path]) :
                 CapturedAt(inv[p].config.files[k],
                            fs[inv[p].config.files[k].path], i)
                    = inv[p].new_version

\* content after the value captured by the first match of f's template, if
\* there is a match, has been replaced by new_version
FirstMatchReplaced(f, content, new_version) ==
    IF MatchesOf(f, content) = {}
    THEN content
    ELSE Replaced(content,
                  Min(MatchesOf(f, content)) + Len(TemplatePrefix(f.search_pattern)),
                  Min(MatchesOf(f, content)) + Len(TemplatePrefix(f.search_pattern))
                     + Len(CapturedAt(f, content, Min(MatchesOf(f, content)))) - 1,
                  new_version)

\* C16: what is written to a search-pattern target is the file's content
\* with only the captured version value replaced by new_version, every
\* character outside that span (the rest of the template match included)
\* being as it was; with the template "version: {current_version}" and the
\* content "version: 1.2.3", bump minor leaves "version: 1.3.0".
C16_OnlyCapturedSpanReplaced ==
    \A p \in Procs :
        /\ (/\ inv[p].pc = "write"
            /\ inv[p].config.files[inv[p].idx].kind = "SearchPattern")
           => inv[p].content
                = FirstMatchReplaced(inv[p].config.files[inv[p].idx],
                                     fs[inv[p].config.files[inv[p].idx].path],
                                     inv[p].new_version)
        /\ (/\ Succeeded(inv[p])
            /\ inv[p].command = "bump"
            /\ inv[p].part = "minor"
            /\ ~inv[p].release_candidate
            /\ inv[p].config.files = <<SearchPattern("f2", TemplateVersion)>>
            /\ inv[p].pre_fs["f2"]
                 = <<"v", "e", "r", "s", "i", "o", "n", ":", " ", "1", ".", "2", ".", "3">>)
           => fs["f2"]
                = <<"v", "e", "r", "s", "i", "o", "n", ":", " ", "1", ".", "3", ".", "0">>

\* C16's case: the bump minor of the scenario has succeeded
C16_Witness ==
    \E p \in Procs :
        /\ Succeeded(inv[p])
        /\ inv[p].command = "bump"
        /\ inv[p].part = "minor"
        /\ inv[p].config.files = <<SearchPattern("f2", TemplateVersion)>>
        /\ inv[p].pre_fs["f2"]
             = <<"v", "e", "r", "s", "i", "o", "n", ":", " ", "1", ".", "2", ".", "3">>
        /\ fs["f2"] # inv[p].pre_fs["f2"]

\* s.split(old): the texts between the occurrences of old that a scan from
\* the left finds, gap being the text passed since the last one
RECURSIVE SplitFrom(_, _, _)
SplitFrom(s, old, gap) ==
    IF Len(s) < Len(old) THEN <<gap \o s>>
    ELSE IF SubSeq(s, 1, Len(old)) = old
         THEN <<gap>> \o SplitFrom(SubSeq(s, Len(old) + 1, Len(s)), old, <<>>)
         ELSE SplitFrom(Tail(s), old, Append(gap, s[1]))

Split(s, old) == SplitFrom(s, old, <<>>)

\* new.join(gaps)
RECURSIVE Join(_, _)
Join(gaps, new) ==
    IF Len(gaps) = 1 THEN gaps[1]
    ELSE gaps[1] \o new \o Join(Tail(gaps), new)

\* the invocation is about to write the plain target it has read
WritingPlain(me) ==
    me.pc = "write" /\ me.config.files[me.idx].kind = "FilePath"

\* C17, as stated: what is written to a plain target that contains the old
\* current_version is its content with all occurrences of old_version
\* replaced by new_version and nothing else changed; it contains new_version
\* and, whenever new_version does not contain old_version, no occurrence of
\* old_version.
C17_NoOldVersionRemains ==
    \A p \in Procs :
        WritingPlain(inv[p])
        => /\ inv[p].content
                = Join(Split(fs[inv[p].config.files[inv[p].idx].path],
                             inv[p].old_version),
                       inv[p].new_version)
           /\ Contains(inv[p].content, inv[p].new_version)
           /\ ~Contains(inv[p].new_version, inv[p].old_version)
              => ~Contains(inv[p].content, inv[p].old_version)

\* C17, amended: what is written is the content with every occurrence of
\* old_version that a scan from the left finds replaced by new_version and
\* nothing else changed; it contains new_version, and the text between the
\* replaced occurrences holds no occurrence of old_version.  (One can remain
\* where an inserted new_version meets the text next to it.)
C17_AllOccurrencesReplaced ==
    \A p \in Procs :
        WritingPlain(inv[p])
        => /\ inv[p].content
                = Join(Split(fs[inv[p].config.files[inv[p].idx].path],
                             inv[p].old_version),
                       inv[p].new_version)
           /\ Len(Split(fs[inv[p].config.files[inv[p].idx].path],
                        inv[p].old_version)) >= 2
           /\ Contains(inv[p].content, inv[p].new_version)
           /\ \A k \in 1..Len(Split(fs[inv[p].config.files[inv[p].idx].path],
                                      inv[p].old_version)) :
                 ~Contains(Split(fs[inv[p].config.files[inv[p].idx].path],
                                 inv[p].old_version)[k],
                           inv[p].old_version)

\* C17's case: a file that holds the old version twice is about to be
\* written with both occurrences replaced
C17_Witness ==
    \E p \in Procs :
        /\ WritingPlain(inv[p])
        /\ Len(Split(fs[inv[p].config.files[inv[p].idx].path],
                     inv[p].old_version)) = 3
        /\ ~Contains(inv[p].new_version, inv[p].old_version)
        /\ Contains(inv[p].content, inv[p].new_version)
        /\ ~Contains(inv[p].content, inv[p].old_version)

\* C18: a successful bump or release leaves the files list of the config
\* file as it was, the same entries in the same order, a search-pattern
\* entry with its template text and placeholder, and changes no field other
\* than current_version and current_semantic_version.
C18_FilesRoundTrip ==
    \A p \in Procs :
        (Succeeded(inv[p]) /\ Replacing(inv[p]))
        => /\ config.files = inv[p].pre_config.files
           /\ DOMAIN config = DOMAIN inv[p].pre_config
           /\ \A k \in PatternTargets(inv[p].pre_config.files) :
                 /\ config.files[k].search_pattern
                      = inv[p].pre_config.files[k].search_pattern
                 /\ PlaceholderCount(config.files[k].search_pattern) = 1

\* the invocation that exited last was a successful bump or release
AfterSuccess == last.command \in {"bump", "release"}

\* the semantic version the config holds after the invocation that exited
\* last: the one it passed on, or the one it found when it passed none
LastSemantic ==
    IF Truthy(last.new_semantic_version)
    THEN last.new_semantic_version ELSE last.pre_semantic

\* C19: a current-version that follows a successful bump or release exits
\* with status 0 and prints exactly its new_version and a newline; a
\* current-semantic-version that follows it exits with status 0 and prints
\* exactly its new semantic version and a newline.
C19_PrintsWhatWasPersisted ==
    \A p \in Procs :
        (inv[p].pc = "done" /\ AfterSuccess)
        => /\ inv[p].command = "current-version"
              => /\ inv[p].exit_code = 0
                 /\ inv[p].output.stdout = last.new_version \o <<"\n">>
           /\ inv[p].command = "current-semantic-version"
              => /\ inv[p].exit_code = 0
                 /\ inv[p].output.stdout = LastSemantic \o <<"\n">>

\* C19's case: a current-version follows a bump with --release-candidate,
\* whose two versions differ
C19_Witness ==
    \E p \in Procs :
        /\ inv[p].pc = "done"
        /\ inv[p].command = "current-version"
        /\ last.command = "bump"
        /\ last.new_version # last.new_semantic_version
        /\ IsReleaseCandidate(last.new_version)
        /\ inv[p].output.stdout = last.new_version \o <<"\n">>

\* C20: without config file, bump, release, current-version and
\* current-semantic-version each end with status 1 and the message "Could not
\* open file <path>" naming the config file, while config-schema and
\* sample-config end with status 0 and print the schema and the sample
\* config; no file is created or modified.
C20_MissingConfigFile ==
    \A p \in Procs :
        (inv[p].pc # "idle" /\ ~Exists(inv[p].pre_config))
        => /\ inv[p].pc = "done"
           /\ inv[p].command \in {"bump", "release", "current-version",
                                   "current-semantic-version"}
              => inv[p].exit_code = 1 /\ CouldNotOpen(inv[p])
           /\ inv[p].command = "config-schema"
              => /\ inv[p].exit_code = 0
                 /\ inv[p].output.stdout = <<"Config.schema_json()", "\n">>
           /\ inv[p].command = "sample-config"
              => /\ inv[p].exit_code = 0
                 /\ inv[p].output.document = DefaultConfig
           /\ ~Exists(config)
           /\ fs = inv[p].pre_fs
           /\ inv[p].target_writes = 0 /\ inv[p].config_writes = 0

\* C20's case: a release in a directory without config file has failed
C20_Witness ==
    \E p \in Procs :
        /\ inv[p].pc = "done"
        /\ inv[p].command = "release"
        /\ ~Exists(config)
        /\ inv[p].exit_code = 1
        /\ CouldNotOpen(inv[p])

\* the config file holds a search-pattern entry whose template does not have
\* exactly one placeholder
BadTemplate(cfgfile) ==
    \E k \in 1..Len(cfgfile.files) :
        /\ cfgfile.files[k].kind = "SearchPattern"
        /\ PlaceholderCount(cfgfile.files[k].search_pattern) # 1

\* C21: a command that constructs the config from a file whose search-pattern
\* entry has a template with zero or several placeholders ends with the
\* validation error (status 1) whatever the tracked files hold: it never
\* reaches __replace_version_strings, and the config file and every tracked
\* file are as they were.
C21_BadTemplateRejected ==
    \A p \in Procs :
        (/\ inv[p].pc # "idle"
         /\ inv[p].command \notin NoConfigCommands
         /\ BadTemplate(inv[p].pre_config))
        => /\ inv[p].pc = "done"
           /\ inv[p].exit_code = 1
           /\ inv[p].output.text = "ValidationError"
           /\ ~Loaded(inv[p])
           /\ ~Replacing(inv[p])
           /\ inv[p].target_writes = 0 /\ inv[p].config_writes = 0
           /\ config = inv[p].pre_config
           /\ fs = inv[p].pre_fs

\* C21's case: a bump patch was rejected for a template with two
\* placeholders, while the tracked file holds the current version
C21_Witness ==
    \E p \in Procs :
        /\ inv[p].pc = "done"
        /\ inv[p].command = "bump"
        /\ inv[p].part = "patch"
        /\ BadTemplate(inv[p].pre_config)
        /\ PlaceholderCount(inv[p].pre_config.files[1].search_pattern) = 2
        /\ Contains(fs["f2"], inv[p].pre_config.current_version)
        /\ inv[p].output.text = "ValidationError"

\* C22: a bump or release whose files list holds a directory entry, every
\* file below the directory containing the old version, succeeds and leaves
\* each of those files with every occurrence of the old version replaced by
\* the new one.
C22_DirectoryExpanded ==
    \A p \in Procs :
        (/\ inv[p].pc = "done"
         /\ Replacing(inv[p])
         /\ inv[p].config.files = <<DirectoryPath("d")>>
         /\ \A f \in FilesBelow("d") :
               Contains(inv[p].pre_fs[f], inv[p].old_version))
        => /\ Succeeded(inv[p])
           /\ \A f \in FilesBelow("d") :
                 fs[f] = StrReplace(inv[p].pre_fs[f], inv[p].old_version,
                                    inv[p].new_version)

\* the version a bump rc makes of current_version: V followed by rc1, or the
\* counter of its suffix incremented
RcBumped(version) ==
    IF HasRc(version)
    THEN BeforeRc(version) \o RC
            \o FormatInt(ParseInt(AfterRc(version)) + 1)
    ELSE version \o RC \o <<"1">>

\* C23: bump rc --release-candidate on a loaded config whose current_version
\* is M.N.P or M.N.PrcK, the tracked files holding it, exits with status 0
\* and does what bump rc does: the config ends with Vrc1, or with the counter
\* incremented, the tracked file holds that version, and
\* current_semantic_version is unchanged.
C23_RcWithFlagIsBumpRc ==
    \A p \in Procs :
        (/\ inv[p].pc = "done"
         /\ inv[p].command = "bump"
         /\ inv[p].part = "rc"
         /\ inv[p].release_candidate
         /\ inv[p].config.files = <<FilePath("f1")>>
         /\ Contains(inv[p].pre_fs["f1"], inv[p].pre_config.current_version)
         /\ \/ IsSemantic(inv[p].pre_config.current_version)
            \/ IsReleaseCandidate(inv[p].pre_config.current_version))
        => /\ inv[p].exit_code = 0
           /\ config.current_version = RcBumped(inv[p].pre_config.current_version)
           /\ Contains(fs["f1"], RcBumped(inv[p].pre_config.current_version))
           /\ config.current_semantic_version
                = inv[p].pre_config.current_semantic_version

\* C24: whatever bumps and releases have run on a config whose
\* current_semantic_version is M.N.P, the config file's
\* current_semantic_version is exactly M.N.P, three numbers and two dots, with
\* no rc suffix and no commit hash.
C24_SemanticVersionShape ==
    Exists(config)
    => /\ IsSemantic(config.current_semantic_version)
       /\ ~HasRc(config.current_semantic_version)
       /\ ~IsCommitHash(config.current_semantic_version)

\* C24's case: a release has succeeded after a successful bump, and the
\* semantic version is no longer the one the bump found
C24_Witness ==
    \E p \in Procs :
        /\ Succeeded(inv[p])
        /\ inv[p].command = "release"
        /\ last.command = "bump"
        /\ config.current_semantic_version # last.pre_semantic
        /\ IsSemantic(config.current_semantic_version)

\* C25: whatever the directory holds, sample-config exits with status 0 and
\* the document it prints passes the validation of a config file: its
\* current_version and current_semantic_version match their patterns and
\* every entry of its files list is valid; loading it gives the same values.
C25_SampleConfigIsValid ==
    \A p \in Procs :
        (inv[p].pc = "done" /\ inv[p].command = "sample-config")
        => /\ inv[p].exit_code = 0
           /\ Exists(inv[p].output.document)
           /\ Valid(inv[p].output.document)
           /\ IsSemantic(inv[p].output.document.current_semantic_version)
           /\ Config(inv[p].output.document) = inv[p].output.document

\* C25's case: sample-config has printed its document in a directory whose
\* own config file fails validation
C25_Witness ==
    \E p \in Procs :
        /\ inv[p].pc = "done"
        /\ inv[p].command = "sample-config"
        /\ Exists(config) /\ ~Valid(config)
        /\ Valid(inv[p].output.document)

\* what the loop writes to the target f whose file holds content
Substituted(f, content, old_version, new_version) ==
    IF f.kind = "SearchPattern"
    THEN SpliceLoop(content, TemplatePrefix(f.search_pattern),
                    TemplateSuffix(f.search_pattern), new_version, MaxSplice).content
    ELSE StrReplace(content, old_version, new_version)

\* C26: when a bump or release has failed because the plain target at
\* position i lacks the old version, exactly the i - 1 targets before it have
\* been written, each holding its content with the new version substituted;
\* the file of the target at position i and of every later target is as it
\* was before the command; the config file still holds the old version.
C26_PrefixRewritten ==
    \A p \in Procs :
        (inv[p].pc = "done" /\ NotFound(inv[p]))
        => /\ inv[p].idx \in 1..Len(inv[p].config.files)
           /\ inv[p].target_writes = inv[p].idx - 1
           /\ \A j \in 1..(inv[p].idx - 1) :
                 fs[inv[p].config.files[j].path]
                    = Substituted(inv[p].config.files[j],
                                  inv[p].pre_fs[inv[p].config.files[j].path],
                                  inv[p].old_version, inv[p].new_version)
           /\ \A j \in inv[p].idx..Len(inv[p].config.files) :
                 fs[inv[p].config.files[j].path]
                    = inv[p].pre_fs[inv[p].config.files[j].path]
           /\ config = inv[p].pre_config
           /\ config.current_version = inv[p].old_version

\* the invocation is inside a search-and-splice loop that has not ended: its
\* first match still captures a value other than new_version after MaxSplice
\* splices
Diverged(me) == me.pc = "hang"

\* C27: the search-and-splice loop of a search-pattern target ends for every
\* file content and every new_version: no invocation stays in the loop.
C27_SpliceLoopTerminates ==
    \A p \in Procs : ~Diverged(inv[p])

\* the plain file targets of a files list
PlainTargets(files) == {k \in 1..Len(files) : files[k].kind = "FilePath"}

\* a bump major, minor, patch or rc, or a release on a version M.N.PrcK, that
\* loaded its config and whose combination of part and flag is allowed
SemanticCommand(me) ==
    /\ Loaded(me)
    /\ \/ /\ me.command = "bump"
          /\ me.part \in {"major", "minor", "patch", "rc"}
          /\ ~ForbiddenFlag(me)
       \/ /\ me.command = "release"
          /\ IsReleaseCandidate(me.pre_config.current_version)

\* C28: a bump major, minor, patch or rc, or a release on an rc version,
\* over a files list of plain files and search patterns, every plain target
\* containing current_version when the command starts, ends with status 0,
\* every plain target holding the new version and the config holding it as
\* current_version; also when the list names a file twice.
C28_SucceedsWhenTargetsHoldVersion ==
    \A p \in Procs :
        (/\ inv[p].pc = "done"
         /\ SemanticCommand(inv[p])
         /\ \A k \in 1..Len(inv[p].config.files) :
               inv[p].config.files[k].kind # "DirectoryPath"
         /\ \A k \in PlainTargets(inv[p].config.files) :
               Contains(inv[p].pre_fs[inv[p].config.files[k].path],
                        inv[p].pre_config.current_version))
        => /\ inv[p].exit_code = 0
           /\ config.current_version = inv[p].new_version
           /\ \A k \in PlainTargets(inv[p].config.files) :
                 Contains(fs[inv[p].config.files[k].path], inv[p].new_version)

\* every plain file target of the config file cfgfile contains its
\* current_version, the files being as in files
InSync(cfgfile, files) ==
    \A k \in PlainTargets(Config(cfgfile).files) :
        Contains(files[Config(cfgfile).files[k].path], cfgfile.current_version)

\* C29: a bump or release that succeeds from a state in which every plain
\* file target contains current_version leaves a state in which every plain
\* file target contains the new current_version; so between invocations,
\* after a successful bump or release, config and plain tracked files are in
\* sync.
C29_StaysInSync ==
    /\ \A p \in Procs :
          (/\ Succeeded(inv[p])
           /\ Replacing(inv[p])
           /\ InSync(inv[p].pre_config, inv[p].pre_fs))
          => /\ InSync(config, fs)
             /\ config.current_version = inv[p].new_version
    /\ ((\A p \in Procs : inv[p].pc = "idle") /\ AfterSuccess)
       => InSync(config, fs)

\* C29's case: a second bump or release in a row has succeeded on a plain
\* target, which holds the version of the config and not the one before
C29_Witness ==
    \E p \in Procs :
        /\ Succeeded(inv[p])
        /\ Replacing(inv[p])
        /\ AfterSuccess
        /\ PlainTargets(config.files) # {}
        /\ config.current_version # inv[p].pre_config.current_version
        /\ fs["f1"] # inv[p].pre_fs["f1"]
        /\ InSync(config, fs)

\* the invocation has stopped, without success, at the target its loop had
\* reached
StoppedAtTarget(me) ==
    /\ Replacing(me)
    /\ me.pc \in {"done", "hang"}
    /\ ~Succeeded(me)
    /\ me.idx \in 1..Len(me.config.files)

\* the file of the search-pattern target f holds no match of its template
NoMatch(f, files) == MatchesOf(f, files[f.path]) = {}

\* C30: no bump or release stops at a search-pattern target; a
\* search-pattern target whose file holds no match of the template is written
\* with the content it had, and a command whose other targets hold the old
\* version then succeeds with the config holding the new version.
C30_PatternTargetNeverFails ==
    \A p \in Procs :
        /\ StoppedAtTarget(inv[p])
           => inv[p].config.files[inv[p].idx].kind # "SearchPattern"
        /\ (/\ inv[p].pc = "write"
            /\ inv[p].config.files[inv[p].idx].kind = "SearchPattern"
            /\ NoMatch(inv[p].config.files[inv[p].idx], fs))
           => inv[p].content = fs[inv[p].config.files[inv[p].idx].path]
        /\ (/\ inv[p].pc = "done"
            /\ Replacing(inv[p])
            /\ \E k \in PatternTargets(inv[p].config.files) :
                  NoMatch(inv[p].config.files[k], inv[p].pre_fs)
            /\ \A k \in PlainTargets(inv[p].config.files) :
                  Contains(inv[p].pre_fs[inv[p].config.files[k].path],
                           inv[p].old_version))
           => /\ Succeeded(inv[p])
              /\ ~NotFound(inv[p])
              /\ config.current_version = inv[p].new_version
              /\ \A k \in PatternTargets(inv[p].config.files) :
                    fs[inv[p].config.files[k].path]
                       = inv[p].pre_fs[inv[p].config.files[k].path]

\* the value the leftmost match of f's template captures in content
FirstCaptured(f, content) == CapturedAt(f, content, Min(MatchesOf(f, content)))

\* C31: a search-pattern target is handled without the config's old
\* current_version: no command ends with "Unable to find" at such a target,
\* and whenever the value its template captures in the file differs from
\* new_version, what is written captures new_version there, whether or not
\* the captured value was the old current_version.
C31_PatternIgnoresOldVersion ==
    \A p \in Procs :
        /\ (inv[p].pc = "done" /\ NotFound(inv[p]))
           => inv[p].config.files[inv[p].idx].kind = "FilePath"
        /\ (/\ inv[p].pc = "write"
            /\ inv[p].config.files[inv[p].idx].kind = "SearchPattern"
            /\ ~NoMatch(inv[p].config.files[inv[p].idx], fs))
           => /\ MatchesOf(inv[p].config.files[inv[p].idx], inv[p].content) # {}
              /\ FirstCaptured(inv[p].config.files[inv[p].idx], inv[p].content)
                    = inv[p].new_version
              /\ FirstCaptured(inv[p].config.files[inv[p].idx],
                               fs[inv[p].config.files[inv[p].idx].path])
                    # inv[p].new_version
                 => inv[p].content # fs[inv[p].config.files[inv[p].idx].path]

\* C31's case: a command has succeeded on a file whose captured value was
\* neither the config's current_version nor the new one, and the file now
\* captures the new version
C31_Witness ==
    \E p \in Procs :
        /\ Succeeded(inv[p])
        /\ Replacing(inv[p])
        /\ inv[p].config.files = <<SearchPattern("f2", TemplateVersion)>>
        /\ FirstCaptured(inv[p].config.files[1], inv[p].pre_fs["f2"])
              \notin {inv[p].old_version, inv[p].new_version}
        /\ FirstCaptured(inv[p].config.files[1], fs["f2"]) = inv[p].new_version
        /\ config.current_version = inv[p].new_version

\* C32: a bump or release that succeeds from a config whose current_version
\* equals its current_semantic_version (the start, or any state of a sequence
\* in which they are equal again) leaves a config in which a current_version
\* of the form M.N.PrcK has current_semantic_version as its M.N.P prefix, and
\* in which, after a bump major, minor or patch without --release-candidate
\* or a release, current_version equals current_semantic_version.
C32_VersionFollowsSemantic ==
    \A p \in Procs :
        (/\ Succeeded(inv[p])
         /\ Replacing(inv[p])
         /\ inv[p].pre_config.current_version
               = inv[p].pre_config.current_semantic_version)
        => /\ IsReleaseCandidate(config.current_version)
              => BeforeRc(config.current_version) = config.current_semantic_version
           /\ (\/ inv[p].command = "release"
               \/ inv[p].part \in SemanticParts /\ ~inv[p].release_candidate)
              => config.current_version = config.current_semantic_version

\* the triple a comes before the triple b in lexicographic order
LexLess(a, b) ==
    \/ a[1] < b[1]
    \/ a[1] = b[1] /\ a[2] < b[2]
    \/ a[1] = b[1] /\ a[2] = b[2] /\ a[3] < b[3]

\* C33: from a config whose current_version is its current_semantic_version
\* (or that followed by rcK, or a commit hash), the triple (M, N, P) of
\* current_semantic_version never decreases: a successful bump major, minor or
\* patch makes it strictly greater, a successful bump rc, bump commit_hash or
\* release leaves it as it was, a command that fails or does not end leaves
\* the config file as it was, and after two commands in a row it is not below
\* what the first one found.
C33_SemanticNeverDecreases ==
    \A p \in Procs :
        (inv[p].pc # "idle" /\ Loaded(inv[p]))
        => /\ (Succeeded(inv[p]) /\ inv[p].part \in SemanticParts)
              => LexLess(Triple(inv[p].pre_config.current_semantic_version),
                         Triple(config.current_semantic_version))
           /\ (/\ Succeeded(inv[p])
               /\ Replacing(inv[p])
               /\ inv[p].part \notin SemanticParts)
              => Triple(config.current_semantic_version)
                    = Triple(inv[p].pre_config.current_semantic_version)
           /\ ~Succeeded(inv[p]) => config = inv[p].pre_config
           /\ AfterSuccess
              => ~LexLess(Triple(config.current_semantic_version),
                          Triple(last.pre_semantic))

\* C33's case: a release has succeeded after a bump that raised the semantic
\* version, which stays where the bump put it
C33_Witness ==
    \E p \in Procs :
        /\ Succeeded(inv[p])
        /\ inv[p].command = "release"
        /\ last.command = "bump"
        /\ last.part \in SemanticParts
        /\ LexLess(Triple(last.pre_semantic),
                   Triple(config.current_semantic_version))
        /\ Triple(config.current_semantic_version)
              = Triple(inv[p].pre_config.current_semantic_version)

\* C34: current-version, current-semantic-version, config-schema and
\* sample-config end at once, without reaching __replace_version_strings and
\* without a write: the config file and every tracked file are as the command
\* found them, whatever ran before, so the command that follows starts from
\* the same files.
C34_ReadOnlyCommands ==
    \A p \in Procs :
        (inv[p].pc # "idle" /\ inv[p].command \in {"current-version", "current-semantic-version",
                              "config-schema", "sample-config"})
        => /\ inv[p].pc = "done"
           /\ ~Replacing(inv[p])
           /\ inv[p].target_writes = 0 /\ inv[p].config_writes = 0
           /\ config = inv[p].pre_config
           /\ fs = inv[p].pre_fs
           /\ inv[p].latest = <<>>

\* C34's case: a current-semantic-version has run after a successful bump
\* or release and has left the files as that command wrote them
C34_Witness ==
    \E p \in Procs :
        /\ inv[p].pc = "done"
        /\ inv[p].command = "current-semantic-version"
        /\ inv[p].exit_code = 0
        /\ AfterSuccess
        /\ config.current_version = last.new_version
        /\ config = inv[p].pre_config
        /\ fs = inv[p].pre_fs

(***************************************************************************)
(* Two processes against one directory.  Each invocation is the same code   *)
(* as above; the steps of the two interleave at the file operations: the    *)
(* load of the config, the read of a target, its write, and the write of    *)
(* the config.  The directory holds a valid config with the one plain       *)
(* target f1 and equal versions, and the commands are bumps of a numeric    *)
(* part.                                                                      *)
(***************************************************************************)
InitConcurrent ==
    /\ InitValid
    /\ config.files = <<FilePath("f1")>>
    /\ config.current_version = config.current_semantic_version
    /\ inv = [p \in Procs |-> IdleInv]
    /\ nops = 0
    /\ last = NoLast

NextConcurrent ==
    \E p \in Procs :
        \/ \E part \in SemanticParts : Bump(p, part, FALSE)
        \/ ReadTarget(p)
        \/ WriteTarget(p)
        \/ PersistConfig(p)
        \/ Exit(p)

SpecConcurrent == InitConcurrent /\ [][NextConcurrent]_vars

\* C35: two concurrent bumps are not isolated.  No step of an invocation
\* waits for the other invocation, and an invocation works to its end with
\* the config it loaded at its start: when both have exited 0 each has written
\* the target once and the config once, the config file holds the new version
\* of one of them and the tracked file the new version of one of them, and
\* nothing makes these the same invocation (the witness is the state where
\* they are not).
C35_NotIsolated ==
    /\ \A p \in Procs :
          /\ (inv[p].pc = "replace" /\ ~LoopDone(inv[p])) => ENABLED ReadTarget(p)
          /\ inv[p].pc = "write" => ENABLED WriteTarget(p)
          /\ (inv[p].pc = "replace" /\ LoopDone(inv[p])) => ENABLED PersistConfig(p)
          /\ Replacing(inv[p])
             => inv[p].old_version = inv[p].pre_config.current_version
    /\ \A p \in Procs, q \in Procs :
          (/\ p # q
           /\ Succeeded(inv[p]) /\ Replacing(inv[p])
           /\ Succeeded(inv[q]) /\ Replacing(inv[q]))
          => /\ inv[p].target_writes = 1 /\ inv[p].config_writes = 1
             /\ inv[p].config.current_version = inv[p].new_version
             /\ config.current_version \in {inv[p].new_version, inv[q].new_version}
             /\ \/ Contains(fs["f1"], inv[p].new_version)
                \/ Contains(fs["f1"], inv[q].new_version)

\* C35's case: both bumps loaded the same config, both exited 0, and the
\* tracked file does not contain the current_version the config file ends with
C35_Witness ==
    \E p \in Procs, q \in Procs :
        /\ p # q
        /\ Succeeded(inv[p]) /\ Replacing(inv[p])
        /\ Succeeded(inv[q]) /\ Replacing(inv[q])
        /\ inv[p].command = "bump" /\ inv[q].command = "bump"
        /\ inv[p].pre_config = inv[q].pre_config
        /\ config.current_version = inv[p].new_version
        /\ ~Contains(fs["f1"], config.current_version)
        /\ Contains(fs["f1"], inv[q].new_version)

====
